---- MODULE Spec2Model ----
(***************************************************************************)
(* Model of the ILI9488 DRM panel driver                                   *)
(* (src/src/drivers/z_obs_arc/ili9488_org/ili9488_v2p0.c).                 *)
(*                                                                         *)
(* Every driver entry point is one action.  An entry point runs to its end *)
(* inside the SRCU read section opened by drm_dev_enter, so it is taken as *)
(* one step; ili9488_remove is two steps (drm_dev_unplug, then             *)
(* drm_atomic_helper_shutdown) because commits already in flight can call  *)
(* into the driver between the two.                                        *)
(*                                                                         *)
(* What an entry point does to the outside world (bus commands, data       *)
(* bursts, delays, backlight calls, guard enter/exit, mappings) is the     *)
(* sequence of events it issues; the variable last holds the call made by  *)
(* the most recent step together with that sequence.                       *)
(*                                                                         *)
(* SpecRace splits the calls into their events, to let drm_dev_unplug run  *)
(* between any two of them: last.todo holds the events the call in         *)
(* progress has yet to issue (it is empty wherever calls are one step).    *)
(***************************************************************************)
EXTENDS Integers, Sequences, FiniteSets, TLC

\* ---------------------------------------------------------------- bounds
\* Largest panel offsets tried (struct mipi_dbi_dev left_offset/top_offset).
MaxLeftOffset == 200
MaxTopOffset == 40

\* ------------------------------------------------------- program constants
ILI9488_CMD_SLEEP_OUT == 17
ILI9488_CMD_DISPLAY_OFF == 40
ILI9488_CMD_DISPLAY_ON == 41
ILI9488_CMD_MEMORY_ACCESS_CONTROL == 54
ILI9488_CMD_SET_ADDRESS_MODE == 54
ILI9488_CMD_POSITIVE_GAMMA_CORRECTION == 224
ILI9488_CMD_NEGATIVE_GAMMA_CORRECTION == 225
ILI9488_CMD_POWER_CONTROL_1 == 192
ILI9488_CMD_POWER_CONTROL_2 == 193
ILI9488_CMD_VCOM_CONTROL_1 == 197
ILI9488_CMD_FRAME_RATE_CONTROL_NORMAL == 177
ILI9488_CMD_DISPLAY_INVERSION_CONTROL == 180
ILI9488_CMD_DISPLAY_FUNCTION_CONTROL == 182
ILI9488_CMD_ENTRY_MODE_SET == 183
ILI9488_CMD_INTERFACE_MODE_CONTROL == 176
ILI9488_CMD_ADJUST_CONTROL_3 == 247
ILI9488_CMD_NORMAL_DISP_MODE_ON == 19
ILI9488_CMD_COLMOD_PIXEL_FORMAT_SET == 58

\* BIT(3), BIT(5), BIT(6), BIT(7)
ILI9488_MADCTL_BGR == 8
ILI9488_MADCTL_MV == 32
ILI9488_MADCTL_MX == 64
ILI9488_MADCTL_MY == 128

\* <video/mipi_display.h>, as used by the driver
MIPI_DCS_SET_COLUMN_ADDRESS == 42
MIPI_DCS_SET_PAGE_ADDRESS == 43
MIPI_DCS_WRITE_MEMORY_START == 44
MIPI_DCS_PIXEL_FMT_18BIT == 6

\* DRM_SIMPLE_MODE(320, 480, 49, 73)
ModeHDisplay == 320
ModeVDisplay == 480

\* errno values returned by the collaborators
EIO == 5
ENOMEM == 12
EINVAL == 22

\* msleep arguments of the enable sequence
SleepOutDelayMs == 120
DisplayOnDelayMs == 100

\* mipi_dbi_formats[]
mipi_dbi_formats == {"RGB565", "XRGB8888"}

\* ------------------------------------------------------------------ state
Devices == {"pitft0", "pitft1"}

VARIABLES
  nodes,       \* per SPI node: present, and what probe stores in mipi_dbi_dev
  swap_bytes,  \* dbi->swap_bytes, decided by mipi_dbi_spi_init for the controller
  life,        \* per device: "absent", "unbound", "bound", "unplugging", "unplugged", "removed", "shutdown"
  active,      \* per device: pipe->crtc.state->active
  backlight,   \* the one backlight line every panel shares: TRUE = on
  last         \* the most recent driver call and the events it issued

vars == <<nodes, swap_bytes, life, active, backlight, last>>

\* ------------------------------------------------------------ bit helpers
RECURSIVE BitOrN(_, _, _)
BitOrN(a, b, n) ==
  IF n = 0 THEN 0
  ELSE (IF a % 2 = 1 \/ b % 2 = 1 THEN 1 ELSE 0) + 2 * BitOrN(a \div 2, b \div 2, n - 1)

\* a | b on u8 operands
BitOr(a, b) == BitOrN(a, b, 8)

\* (v >> 8) & 0xff and v & 0xff
HiByte(v) == (v \div 256) % 256
LoByte(v) == v % 256

\* ----------------------------------------------------------------- events
Ev(k, op, par, buf, len) ==
  [k |-> k, op |-> op, par |-> par, buf |-> buf, len |-> len, ret |-> 0]

EvRet(k, r) == [k |-> k, op |-> 0, par |-> <<>>, buf |-> "none", len |-> 0, ret |-> r]

\* mipi_dbi_command(dbi, cmd, seq...): issued on the bus with result 0
Cmd(op, par) == Ev("cmd", op, par, "none", 0)

\* mipi_dbi_command at the call site named site: io.cmd names the call site
\* whose command fails on the bus.  No caller in the driver reads the result.
CmdAt(site, io, op, par) ==
  [Cmd(op, par) EXCEPT !.ret = IF io.cmd = site THEN -EIO ELSE 0]

RectPar(r) == <<r.x1, r.y1, r.x2, r.y2>>


\* fb->width, fb->height: the mode, swapped by the rotation handed to
\* mipi_dbi18_dev_init
FbWidth(d) == IF nodes[d].rotation \in {90, 270} THEN ModeVDisplay ELSE ModeHDisplay
FbHeight(d) == IF nodes[d].rotation \in {90, 270} THEN ModeHDisplay ELSE ModeVDisplay

FullRect(d) == [x1 |-> 0, x2 |-> FbWidth(d), y1 |-> 0, y2 |-> FbHeight(d)]

\* --------------------------------------------------------- liveness guard
\* dev->unplugged, set by drm_dev_unplug ("unplugging": set, and
\* drm_dev_unplug is still waiting for the open read sections)
unplugged(d) == life[d] \in {"unplugging", "unplugged", "removed"}

\* drm_dev_enter that never looks at dev->unplugged.
drm_dev_enter_Unchecked(d) == TRUE

\* drm_dev_enter succeeds
drm_dev_enter(d) == ~unplugged(d)

\* ------------------------------------------------ window addressing codec
\* mipi_dbi_set_window_address with the page address sent first.
mipi_dbi_set_window_address_PageFirst(d, xs0, xe0, ys0, ye0, io) ==
  LET xs == xs0 + nodes[d].left
      xe == xe0 + nodes[d].left
      ys == ys0 + nodes[d].top
      ye == ye0 + nodes[d].top
  IN << CmdAt("page_address", io, MIPI_DCS_SET_PAGE_ADDRESS,
              <<HiByte(ys), LoByte(ys), HiByte(ye), LoByte(ye)>>),
        CmdAt("column_address", io, MIPI_DCS_SET_COLUMN_ADDRESS,
              <<HiByte(xs), LoByte(xs), HiByte(xe), LoByte(xe)>>) >>

mipi_dbi_set_window_address(d, xs0, xe0, ys0, ye0, io) ==
  LET xs == xs0 + nodes[d].left   \* unsigned int; the sums stay far below 2^32
      xe == xe0 + nodes[d].left
      ys == ys0 + nodes[d].top
      ye == ye0 + nodes[d].top
  IN << CmdAt("column_address", io, MIPI_DCS_SET_COLUMN_ADDRESS,
              <<HiByte(xs), LoByte(xs), HiByte(xe), LoByte(xe)>>),
        CmdAt("page_address", io, MIPI_DCS_SET_PAGE_ADDRESS,
              <<HiByte(ys), LoByte(ys), HiByte(ye), LoByte(ye)>>) >>

\* --------------------------------------------------------------- converter
\* The drm_fb_* helper the format switch selects ("none": the default branch).
ConvHelper(fmt, swap) ==
  CASE fmt = "RGB565" -> (IF swap THEN "drm_fb_swab" ELSE "drm_fb_memcpy")
    [] fmt = "XRGB8888" -> "drm_fb_xrgb8888_to_rgb888"
    [] OTHER -> "none"

\* fb->format->cpp[0]: bytes per pixel of the source format.
FormatCpp(fmt) ==
  CASE fmt = "RGB565" -> 2
    [] fmt = "XRGB8888" -> 4
    [] fmt = "RGB888" -> 3
    [] OTHER -> 1

\* Bytes per pixel the helper stores at dst: drm_fb_memcpy and drm_fb_swab
\* keep the source's pixel size, drm_fb_xrgb8888_to_rgb888 stores RGB888.
HelperDstCpp(helper, fmt) ==
  IF helper = "drm_fb_xrgb8888_to_rgb888" THEN 3 ELSE FormatCpp(fmt)

\* Bytes the helper stores at dst for the clip: every line of the clip,
\* packed.
HelperBytes(helper, fmt, clip) ==
  (clip.x2 - clip.x1) * (clip.y2 - clip.y1) * HelperDstCpp(helper, fmt)

\* The three bytes drm_fb_xrgb8888_to_rgb888 stores for the pixel pix:
\* DRM_FORMAT_RGB888 is little endian, the blue byte comes first in memory.
xrgb8888_to_rgb888_pixel(pix) ==
  <<pix % 256, (pix \div 256) % 256, (pix \div 65536) % 256>>

\* The two bytes of a 16-bit pixel as drm_fb_memcpy stores them (the
\* source's little-endian bytes) and as drm_fb_swab stores them (swapped).
memcpy_pixel(pix) == <<pix % 256, (pix \div 256) % 256>>
swab_pixel(pix) == <<(pix \div 256) % 256, pix % 256>>

\* The bytes the helper stores at dst for the pixels sbuf of the clip, in
\* row-major order, packed.
HelperOutput(helper, sbuf) ==
  LET n == IF helper = "drm_fb_xrgb8888_to_rgb888" THEN 3 ELSE 2
      one(pix) == CASE helper = "drm_fb_xrgb8888_to_rgb888" -> xrgb8888_to_rgb888_pixel(pix)
                    [] helper = "drm_fb_swab" -> swab_pixel(pix)
                    [] OTHER -> memcpy_pixel(pix)
  IN [i \in 1..(n * Len(sbuf)) |-> one(sbuf[((i - 1) \div n) + 1])[((i - 1) % n) + 1]]

\* mipi_dbi18_buf_copy that returns from a failed drm_gem_fb_vmap without
\* drm_gem_fb_end_cpu_access.
mipi_dbi18_buf_copy_NoEndOnVmapFailure(fmt, clip, swap, io) ==
  LET call == Ev("buf_copy", 0, RectPar(clip), "tx_buf", 0)
      helper == ConvHelper(fmt, swap)
      ret == IF io.cpu # 0 THEN io.cpu
             ELSE IF io.vmap2 # 0 THEN io.vmap2
             ELSE IF helper = "none" THEN -EINVAL
             ELSE 0
  IN [ret |-> ret,
      ev |-> <<call>>
             \o (IF io.cpu # 0
                 THEN <<EvRet("begin_cpu_access", io.cpu)>>
                 ELSE IF io.vmap2 # 0
                 THEN <<EvRet("begin_cpu_access", 0), EvRet("vmap", io.vmap2)>>
                 ELSE <<EvRet("begin_cpu_access", 0), EvRet("vmap", 0)>>
                      \o (IF helper = "none"
                          THEN <<EvRet("err_once", -EINVAL)>>
                          ELSE <<Ev(helper, 0, RectPar(clip), "tx_buf",
                                    HelperBytes(helper, fmt, clip))>>)
                      \o <<EvRet("vunmap", 0), EvRet("end_cpu_access", 0)>>)
             \o <<EvRet("buf_copy_return", ret)>>]

\* mipi_dbi18_buf_copy(dst = tx_buf, fb, clip, swap).  io.cpu and io.vmap2 are
\* the results of drm_gem_fb_begin_cpu_access and drm_gem_fb_vmap.
\* The value is [ret, ev]: the return value and the events issued.
mipi_dbi18_buf_copy(fmt, clip, swap, io) ==
  LET call == Ev("buf_copy", 0, RectPar(clip), "tx_buf", 0)
      helper == ConvHelper(fmt, swap)
      ret == IF io.cpu # 0 THEN io.cpu
             ELSE IF io.vmap2 # 0 THEN io.vmap2
             ELSE IF helper = "none" THEN -EINVAL
             ELSE 0
  IN [ret |-> ret,
      ev |-> <<call>>
             \o (IF io.cpu # 0
                 THEN <<EvRet("begin_cpu_access", io.cpu)>>
                 ELSE IF io.vmap2 # 0
                 THEN <<EvRet("begin_cpu_access", 0), EvRet("vmap", io.vmap2),
                        EvRet("end_cpu_access", 0)>>
                 ELSE <<EvRet("begin_cpu_access", 0), EvRet("vmap", 0)>>
                      \o (IF helper = "none"
                          THEN <<EvRet("err_once", -EINVAL)>>
                          ELSE <<Ev(helper, 0, RectPar(clip), "tx_buf",
                                    HelperBytes(helper, fmt, clip))>>)
                      \o <<EvRet("vunmap", 0), EvRet("end_cpu_access", 0)>>)
             \o <<EvRet("buf_copy_return", ret)>>]

\* -------------------------------------------------------- update dispatcher
\* UseCopyPath with the byte-swap test left out.
UseCopyPath_NoSwapTest(d, full, fmt) ==
  ~nodes[d].dc \/ ~full \/ fmt = "XRGB8888"

\* The condition of the if at the head of the copy path.
UseCopyPath(d, full, fmt) ==
  ~nodes[d].dc \/ ~full \/ swap_bytes \/ fmt = "XRGB8888"

\* DirtyWindow with the exclusive upper bounds passed on unchanged.
DirtyWindow_ExclusiveEnd(d, rect, io) ==
  mipi_dbi_set_window_address(d, rect.x1, rect.x2, rect.y1, rect.y2, io)

\* The arguments mipi_dbi18_fb_dirty hands to mipi_dbi_set_window_address.
DirtyWindow(d, rect, io) ==
  mipi_dbi_set_window_address(d, rect.x1, rect.x2 - 1, rect.y1, rect.y2 - 1, io)

\* DataBurst with the length of a 16-bit-per-pixel frame.
DataBurst_TwoBytesPerPixel(tr, width, height, ret) ==
  [Ev("burst", MIPI_DCS_WRITE_MEMORY_START, <<>>, tr, width * height * 2)
     EXCEPT !.ret = ret]

\* mipi_dbi_command_buf(dbi, MIPI_DCS_WRITE_MEMORY_START, tr, width * height * 3)
DataBurst(tr, width, height, ret) ==
  [Ev("burst", MIPI_DCS_WRITE_MEMORY_START, <<>>, tr, width * height * 3)
     EXCEPT !.ret = ret]

\* Transmit that sends the burst a second time when the first one failed.
Transmit_RetryOnce(d, rect, tr, io) ==
  DirtyWindow(d, rect, io)
  \o <<DataBurst(tr, rect.x2 - rect.x1, rect.y2 - rect.y1, io.xfer)>>
  \o (IF io.xfer # 0
      THEN <<DataBurst(tr, rect.x2 - rect.x1, rect.y2 - rect.y1, 0)>>
      ELSE <<>>)

\* What follows the choice of tr: addressing, the burst, the error message.
Transmit(d, rect, tr, io) ==
  DirtyWindow(d, rect, io)
  \o <<DataBurst(tr, rect.x2 - rect.x1, rect.y2 - rect.y1, io.xfer)>>
  \o (IF io.xfer # 0 THEN <<EvRet("err_once", io.xfer)>> ELSE <<>>)

\* mipi_dbi18_fb_dirty(fb, rect).  io.vmap is the result of drm_gem_fb_vmap.
\* The function is void: its return hands nothing to the caller.
mipi_dbi18_fb_dirty(d, fmt, rect, io) ==
  LET width == rect.x2 - rect.x1
      height == rect.y2 - rect.y1
      full == width = FbWidth(d) /\ height = FbHeight(d)
      call == Ev("fb_dirty", 0, RectPar(rect), "none", 0)
      copy == mipi_dbi18_buf_copy(fmt, rect, swap_bytes, io)
  IN (IF ~drm_dev_enter(d) THEN <<call, EvRet("enter_fail", 0)>>
      ELSE IF io.vmap # 0
      THEN <<call, EvRet("enter", 0), EvRet("vmap", io.vmap), EvRet("exit", 0)>>
      ELSE <<call, EvRet("enter", 0), EvRet("vmap", 0)>>
           \o (IF UseCopyPath(d, full, fmt)
               THEN copy.ev
                    \o (IF copy.ret # 0
                        THEN <<EvRet("err_once", copy.ret), EvRet("err_once", copy.ret)>>
                        ELSE Transmit(d, rect, "tx_buf", io))
               ELSE Transmit(d, rect, "fb", io))
           \o <<EvRet("vunmap", 0), EvRet("exit", 0)>>)
     \o <<EvRet("fb_dirty_return", 0)>>

\* mipi_dbi18_enable_flush with the backlight turned on before the flush.
mipi_dbi18_enable_flush_BacklightFirst(d, fmt, io) ==
  IF ~drm_dev_enter(d) THEN <<EvRet("enter_fail", 0)>>
  ELSE <<EvRet("enter", 0), EvRet("backlight_enable", 0)>>
       \o mipi_dbi18_fb_dirty(d, fmt, FullRect(d), io)
       \o <<EvRet("exit", 0)>>

\* mipi_dbi18_enable_flush(dbidev, crtc_state, plane_state)
mipi_dbi18_enable_flush(d, fmt, io) ==
  IF ~drm_dev_enter(d) THEN <<EvRet("enter_fail", 0)>>
  ELSE <<EvRet("enter", 0)>>
       \o mipi_dbi18_fb_dirty(d, fmt, FullRect(d), io)
       \o <<EvRet("backlight_enable", 0), EvRet("exit", 0)>>

\* ------------------------------------------------ panel initialisation
Sleep(ms) == Ev("msleep", ms, <<>>, "none", 0)

\* Display off, gamma, power, VCOM, and the fixed register writes.
InitPanelConfig(io) ==
  << CmdAt("display_off", io, ILI9488_CMD_DISPLAY_OFF, <<>>),
     Cmd(ILI9488_CMD_POSITIVE_GAMMA_CORRECTION,
         <<0, 3, 9, 8, 22, 10, 63, 120, 76, 9, 10, 8, 22, 26, 15>>),
     Cmd(ILI9488_CMD_NEGATIVE_GAMMA_CORRECTION,
         <<0, 22, 25, 3, 15, 5, 50, 69, 70, 4, 14, 13, 53, 55, 15>>),
     Cmd(ILI9488_CMD_POWER_CONTROL_1, <<23, 21>>),
     Cmd(ILI9488_CMD_POWER_CONTROL_2, <<65>>),
     Cmd(ILI9488_CMD_VCOM_CONTROL_1, <<0, 18, 128>>),
     CmdAt("memory_access_control", io, ILI9488_CMD_MEMORY_ACCESS_CONTROL, <<72>>),
     Cmd(ILI9488_CMD_COLMOD_PIXEL_FORMAT_SET,
         <<BitOr(MIPI_DCS_PIXEL_FMT_18BIT * 2, MIPI_DCS_PIXEL_FMT_18BIT)>>),
     Cmd(ILI9488_CMD_INTERFACE_MODE_CONTROL, <<0>>),
     Cmd(ILI9488_CMD_FRAME_RATE_CONTROL_NORMAL, <<160>>),
     Cmd(ILI9488_CMD_DISPLAY_INVERSION_CONTROL, <<2>>),
     Cmd(ILI9488_CMD_DISPLAY_FUNCTION_CONTROL, <<2, 2, 59>>),
     Cmd(ILI9488_CMD_ENTRY_MODE_SET, <<198>>),
     Cmd(ILI9488_CMD_ADJUST_CONTROL_3, <<169, 81, 44, 130>>) >>

\* Exit sleep, settle, normal display mode on, display on, settle.
InitWake(io) ==
  << Cmd(ILI9488_CMD_SLEEP_OUT, <<>>),
     Sleep(SleepOutDelayMs),
     Cmd(ILI9488_CMD_NORMAL_DISP_MODE_ON, <<>>),
     CmdAt("display_on", io, ILI9488_CMD_DISPLAY_ON, <<>>),
     Sleep(DisplayOnDelayMs) >>

\* InitCommands with the wake-up block ahead of the register writes.
InitCommands_WakeFirst(io) == InitWake(io) \o InitPanelConfig(io)

\* The commands and delays between the power-on step and out_enable.
InitCommands(io) == InitPanelConfig(io) \o InitWake(io)

\* AddrMode that keeps the BGR bit of the earlier memory-access-control write.
AddrMode_KeepBGR(rotation) ==
  CASE rotation = 90 -> BitOr(ILI9488_MADCTL_MV, ILI9488_MADCTL_BGR)
    [] rotation = 180 -> BitOr(ILI9488_MADCTL_MY, ILI9488_MADCTL_BGR)
    [] rotation = 270 ->
         BitOr(BitOr(BitOr(ILI9488_MADCTL_MV, ILI9488_MADCTL_MY), ILI9488_MADCTL_MX),
               ILI9488_MADCTL_BGR)
    [] OTHER -> BitOr(ILI9488_MADCTL_MX, ILI9488_MADCTL_BGR)

\* The switch on dbidev->rotation
AddrMode(rotation) ==
  CASE rotation = 90 -> ILI9488_MADCTL_MV
    [] rotation = 180 -> ILI9488_MADCTL_MY
    [] rotation = 270 ->
         BitOr(BitOr(ILI9488_MADCTL_MV, ILI9488_MADCTL_MY), ILI9488_MADCTL_MX)
    [] OTHER -> ILI9488_MADCTL_MX

\* From the label out_enable to the label out_exit.
OutEnable(d, fmt, io) ==
  <<CmdAt("address_mode", io, ILI9488_CMD_SET_ADDRESS_MODE,
          <<AddrMode(nodes[d].rotation)>>)>>
  \o mipi_dbi18_enable_flush(d, fmt, io)

\* AfterPowerOn without the test for ret = 1.
AfterPowerOn_AlwaysInit(d, por, fmt, io) ==
  IF por < 0 THEN <<EvRet("err_once", por)>>
  ELSE InitCommands(io) \o OutEnable(d, fmt, io)

\* AfterPowerOn that logs a failed power-on and carries on.
AfterPowerOn_IgnoreFailure(d, por, fmt, io) ==
  (IF por < 0 THEN <<EvRet("err_once", por)>> ELSE <<>>)
  \o (IF por = 1 THEN OutEnable(d, fmt, io)
      ELSE InitCommands(io) \o OutEnable(d, fmt, io))

\* What enable does with the result of mipi_dbi_poweron_conditional_reset:
\* ret < 0 goes to out_exit, ret = 1 to out_enable, ret = 0 runs the sequence.
AfterPowerOn(d, por, fmt, io) ==
  IF por < 0 THEN <<EvRet("err_once", por)>>
  ELSE IF por = 1 THEN OutEnable(d, fmt, io)
  ELSE InitCommands(io) \o OutEnable(d, fmt, io)

\* sx035hv006_enable that returns from the failed power-on without drm_dev_exit.
sx035hv006_enable_NoExitOnFailure(d, por, fmt, io) ==
  IF ~drm_dev_enter(d) THEN <<EvRet("enter_fail", 0)>>
  ELSE <<EvRet("enter", 0), EvRet("poweron_conditional_reset", por)>>
       \o AfterPowerOn(d, por, fmt, io)
       \o (IF por < 0 THEN <<>> ELSE <<EvRet("exit", 0)>>)

\* sx035hv006_enable(pipe, crtc_state, plane_state)
sx035hv006_enable(d, por, fmt, io) ==
  IF ~drm_dev_enter(d) THEN <<EvRet("enter_fail", 0)>>
  ELSE <<EvRet("enter", 0), EvRet("poweron_conditional_reset", por)>>
       \o AfterPowerOn(d, por, fmt, io)
       \o <<EvRet("exit", 0)>>

\* drm_atomic_helper_damage_merged(old_state, state, &rect): the merged
\* damage is not empty.
drm_atomic_helper_damage_merged(rect) == rect.x2 > rect.x1 /\ rect.y2 > rect.y1

\* mipi_dbi18_pipe_update(pipe, old_state); rect is the merged damage.
mipi_dbi18_pipe_update(d, fmt, rect, io) ==
  IF ~active[d] THEN <<>>
  ELSE IF drm_atomic_helper_damage_merged(rect)
  THEN mipi_dbi18_fb_dirty(d, fmt, rect, io)
  ELSE <<>>

\* .disable = mipi_dbi_pipe_disable: the helper turns the device's backlight
\* off; the backlight is the line all panels share.
mipi_dbi_pipe_disable(d) == <<EvRet("backlight_disable", 0)>>

\* A shutdown that leaves the outputs as they are.
drm_atomic_helper_shutdown_Nothing(d) == <<>>

\* drm_atomic_helper_shutdown(drm): disables every active output.
drm_atomic_helper_shutdown(d) ==
  IF active[d] THEN mipi_dbi_pipe_disable(d) ELSE <<>>

\* ------------------------------------------------------------ environment
\* Results of the collaborators' calls inside one driver call:
\* drm_gem_fb_vmap in fb_dirty (vmap), drm_gem_fb_begin_cpu_access (cpu) and
\* drm_gem_fb_vmap (vmap2) in buf_copy, mipi_dbi_command_buf (xfer), and the
\* call site of the mipi_dbi_command that fails (cmd).  At most one fails.
IoOk == [vmap |-> 0, cpu |-> 0, vmap2 |-> 0, xfer |-> 0, cmd |-> "none"]
FlushOutcomes ==
  { IoOk,
    [IoOk EXCEPT !.vmap = -ENOMEM],
    [IoOk EXCEPT !.cpu = -EIO],
    [IoOk EXCEPT !.vmap2 = -ENOMEM],
    [IoOk EXCEPT !.xfer = -EIO],
    [IoOk EXCEPT !.cmd = "column_address"],
    [IoOk EXCEPT !.cmd = "page_address"] }
EnableOutcomes ==
  FlushOutcomes \cup
  { [IoOk EXCEPT !.cmd = "display_off"],
    [IoOk EXCEPT !.cmd = "memory_access_control"],
    [IoOk EXCEPT !.cmd = "display_on"],
    [IoOk EXCEPT !.cmd = "address_mode"] }

\* Results of mipi_dbi_poweron_conditional_reset: failure, needs-init, retained.
PowerOnResults == {-EIO, 0, 1}

NoRect == [x1 |-> 0, x2 |-> 0, y1 |-> 0, y2 |-> 0]

\* Merged damage handed to update: the whole frame, parts of it, nothing.
DamageRects(d) ==
  { FullRect(d),
    NoRect,
    [x1 |-> 255, x2 |-> 257, y1 |-> 250, y2 |-> 257],
    [x1 |-> 0, x2 |-> FbWidth(d), y1 |-> 0, y2 |-> 1],
    [x1 |-> FbWidth(d) - 1, x2 |-> FbWidth(d), y1 |-> FbHeight(d) - 1, y2 |-> FbHeight(d)] }

\* backlight_enable / backlight_disable act on the shared line.
BacklightAfter(bl, t) ==
  LET idx == {i \in DOMAIN t : t[i].k \in {"backlight_enable", "backlight_disable"}}
  IN IF idx = {} THEN bl
     ELSE t[CHOOSE i \in idx : \A j \in idx : j <= i].k = "backlight_enable"

Call(op, d, por, fmt, rect, t) ==
  [op |-> op, dev |-> d, gone |-> unplugged(d), wasActive |-> active[d],
   por |-> por, fmt |-> fmt, rect |-> rect, trace |-> t, todo |-> <<>>]

\* ---------------------------------------------------------------- actions
\* Values of the "rotation" property: the four right angles, and two others.
Rotations == {0, 90, 180, 270, 45, 360}

NodeConfigs ==
  { [rotation |-> r, dc |-> dc, left |-> o[1], top |-> o[2]] :
      r \in Rotations, dc \in BOOLEAN,
      o \in {<<0, 0>>, <<MaxLeftOffset, MaxTopOffset>>} }

PlainNode == [rotation |-> 0, dc |-> TRUE, left |-> 0, top |-> 0]

\* One panel node in the device tree.
Init ==
  /\ nodes \in {n \in [Devices -> NodeConfigs] : n["pitft1"] = PlainNode}
  /\ swap_bytes \in BOOLEAN
  /\ life = [d \in Devices |-> IF d = "pitft0" THEN "unbound" ELSE "absent"]
  /\ active = [d \in Devices |-> FALSE]
  /\ backlight = FALSE
  /\ last = [op |-> "boot", dev |-> "pitft0", gone |-> FALSE, wasActive |-> FALSE,
             por |-> 0, fmt |-> "RGB565", rect |-> NoRect, trace |-> <<>>,
             todo |-> <<>>]

\* Two panel nodes on one controller, both with a data/command line.
InitShared ==
  /\ nodes = [d \in Devices |-> PlainNode]
  /\ swap_bytes = FALSE
  /\ life = [d \in Devices |-> "unbound"]
  /\ active = [d \in Devices |-> FALSE]
  /\ backlight = FALSE
  /\ last = [op |-> "boot", dev |-> "pitft0", gone |-> FALSE, wasActive |-> FALSE,
             por |-> 0, fmt |-> "RGB565", rect |-> NoRect, trace |-> <<>>,
             todo |-> <<>>]

\* The step of probe that fails for lack of memory, if any.
ProbeFailures == {"none", "drm_dev_alloc", "tx_buf", "drm_dev_register"}

\* mipi_dbi_rotate_mode(&dbidev->mode, rotation), called by
\* mipi_dbi_dev_init_with_formats: 0 and 180 keep the mode, 90 and 270 swap
\* its sides, every other value is refused.
mipi_dbi_rotate_mode(rotation) ==
  IF rotation \in {0, 90, 180, 270} THEN 0 ELSE -EINVAL

\* mipi_dbi_dev_init_with_formats(dbidev, funcs, formats, n, mode, rotation,
\* bufsize): allocates tx_buf, then rotates the mode.
mipi_dbi_dev_init_with_formats(rotation, fail) ==
  IF fail = "tx_buf" THEN -ENOMEM
  ELSE IF mipi_dbi_rotate_mode(rotation) # 0 THEN -EINVAL
  ELSE 0

\* size_t bufsize = mode->vdisplay * mode->hdisplay * sizeof(u32): the size
\* of dbidev->tx_buf.
bufsize == ModeVDisplay * ModeHDisplay * 4

\* mipi_dbi18_dev_init(dbidev, funcs, mode, rotation)
mipi_dbi18_dev_init(rotation, fail) ==
  mipi_dbi_dev_init_with_formats(rotation, fail)

\* The return value of ili9488_probe with its result of mipi_dbi18_dev_init
\* left unread.
ProbeResult_InitUnchecked(d, fail) ==
  IF fail = "drm_dev_alloc" THEN -ENOMEM
  ELSE IF fail = "drm_dev_register" THEN -ENOMEM
  ELSE 0

\* The return value of ili9488_probe: the error of the first step that
\* fails, or 0.
ProbeResult(d, fail) ==
  IF fail = "drm_dev_alloc" THEN -ENOMEM
  ELSE IF mipi_dbi18_dev_init(nodes[d].rotation, fail) # 0
  THEN mipi_dbi18_dev_init(nodes[d].rotation, fail)
  ELSE IF fail = "drm_dev_register" THEN -ENOMEM
  ELSE 0

\* ili9488_probe(spi)
Probe(d, fail) ==
  /\ life[d] = "unbound"
  /\ LET ret == ProbeResult(d, fail)
     IN /\ life' = [life EXCEPT ![d] = IF ret = 0 THEN "bound" ELSE "unbound"]
        /\ last' = [Call("probe", d, 0, "RGB565", NoRect, <<>>) EXCEPT !.por = ret]
  /\ UNCHANGED <<nodes, swap_bytes, active, backlight>>

\* An atomic commit turns the pipe on: .enable = sx035hv006_enable.
PipeEnable(d, por, fmt, io) ==
  /\ life[d] \in {"bound", "unplugged"}
  /\ ~active[d]
  /\ LET t == sx035hv006_enable(d, por, fmt, io)
     IN /\ last' = Call("enable", d, por, fmt, FullRect(d), t)
        /\ backlight' = BacklightAfter(backlight, t)
  /\ active' = [active EXCEPT ![d] = TRUE]
  /\ UNCHANGED <<nodes, swap_bytes, life>>

\* An atomic commit with the pipe on: .update = mipi_dbi18_pipe_update.
PipeUpdate(d, fmt, rect, io) ==
  /\ life[d] \in {"bound", "unplugged"}
  /\ LET t == mipi_dbi18_pipe_update(d, fmt, rect, io)
     IN /\ last' = Call("update", d, 0, fmt, rect, t)
        /\ backlight' = BacklightAfter(backlight, t)
  /\ UNCHANGED <<nodes, swap_bytes, life, active>>

\* mipi_dbi18_enable_flush has external linkage: a call from outside enable.
EnableFlush(d, fmt, io) ==
  /\ life[d] \in {"bound", "unplugged"}
  /\ active[d]
  /\ LET t == mipi_dbi18_enable_flush(d, fmt, io)
     IN /\ last' = Call("enable_flush", d, 0, fmt, FullRect(d), t)
        /\ backlight' = BacklightAfter(backlight, t)
  /\ UNCHANGED <<nodes, swap_bytes, life, active>>

\* An atomic commit turns the pipe off: .disable = mipi_dbi_pipe_disable.
PipeDisable(d) ==
  /\ life[d] = "bound"
  /\ active[d]
  /\ LET t == mipi_dbi_pipe_disable(d)
     IN /\ last' = Call("disable", d, 0, "RGB565", NoRect, t)
        /\ backlight' = BacklightAfter(backlight, t)
  /\ active' = [active EXCEPT ![d] = FALSE]
  /\ UNCHANGED <<nodes, swap_bytes, life>>

\* ili9488_remove, first call: drm_dev_unplug(drm).
RemoveUnplug(d) ==
  /\ life[d] = "bound"
  /\ life' = [life EXCEPT ![d] = "unplugged"]
  /\ last' = Call("unplug", d, 0, "RGB565", NoRect, <<>>)
  /\ UNCHANGED <<nodes, swap_bytes, active, backlight>>

\* ili9488_remove, second call: drm_atomic_helper_shutdown(drm).
RemoveShutdown(d) ==
  /\ life[d] = "unplugged"
  /\ LET t == drm_atomic_helper_shutdown(d)
     IN /\ last' = Call("remove", d, 0, "RGB565", NoRect, t)
        /\ backlight' = BacklightAfter(backlight, t)
  /\ life' = [life EXCEPT ![d] = "removed"]
  /\ active' = [active EXCEPT ![d] = FALSE]
  /\ UNCHANGED <<nodes, swap_bytes>>

\* ili9488_shutdown(spi)
Shutdown(d) ==
  /\ life[d] = "bound"
  /\ LET t == drm_atomic_helper_shutdown(d)
     IN /\ last' = Call("shutdown", d, 0, "RGB565", NoRect, t)
        /\ backlight' = BacklightAfter(backlight, t)
  /\ life' = [life EXCEPT ![d] = "shutdown"]
  /\ active' = [active EXCEPT ![d] = FALSE]
  /\ UNCHANGED <<nodes, swap_bytes>>

\* Pixel values of the source framebuffer tried by the conversions: XRGB8888
\* words with the channels at 0x00, 0x40, 0x80 and 0xFF (top byte 0x00 or
\* 0x7F), and RGB565 words.
PixelValues(fmt) ==
  IF fmt = "XRGB8888"
  THEN {x * 16777216 + r * 65536 + g * 256 + b :
          x \in {0, 127}, r \in {0, 64, 128, 255}, g \in {0, 64, 128, 255},
          b \in {0, 64, 128, 255}}
  ELSE {63488, 2016, 31, 4660}

\* Clips handed to the Converter on its own: one pixel, and 4 x 4 pixels.
ConvertClips ==
  { [x1 |-> 0, x2 |-> 1, y1 |-> 0, y2 |-> 1],
    [x1 |-> 8, x2 |-> 12, y1 |-> 16, y2 |-> 20] }

\* The pixels of the clip of a framebuffer of one colour, row by row.
SolidPixels(pix, clip) ==
  [i \in 1..((clip.x2 - clip.x1) * (clip.y2 - clip.y1)) |-> pix]

\* mipi_dbi18_buf_copy on its own, applied to a framebuffer that shows pix
\* everywhere.  The call's events are followed by what it read from the
\* framebuffer and what it left in dst.
BufCopy(d, fmt, pix, clip, io) ==
  /\ life[d] = "bound"
  /\ LET copy == mipi_dbi18_buf_copy(fmt, clip, swap_bytes, io)
         sbuf == SolidPixels(pix, clip)
         dst == HelperOutput(ConvHelper(fmt, swap_bytes), sbuf)
     IN last' = Call("buf_copy", d, 0, fmt, clip,
                     copy.ev
                     \o (IF copy.ret = 0
                         THEN <<Ev("src", 0, sbuf, "fb", Len(sbuf) * FormatCpp(fmt)),
                                Ev("dst", 0, dst, "tx_buf", Len(dst))>>
                         ELSE <<>>))
  /\ UNCHANGED <<nodes, swap_bytes, life, active, backlight>>

Next ==
  \E d \in Devices :
    \/ \E fail \in ProbeFailures : Probe(d, fail)
    \/ \E por \in PowerOnResults, fmt \in mipi_dbi_formats, io \in EnableOutcomes :
          PipeEnable(d, por, fmt, io)
    \/ \E fmt \in mipi_dbi_formats, rect \in DamageRects(d), io \in FlushOutcomes :
          PipeUpdate(d, fmt, rect, io)
    \/ \E fmt \in mipi_dbi_formats, io \in FlushOutcomes :
          EnableFlush(d, fmt, io)
    \/ PipeDisable(d)
    \/ RemoveUnplug(d)
    \/ RemoveShutdown(d)
    \/ Shutdown(d)

Spec == Init /\ [][Next]_vars

SpecShared == InitShared /\ [][Next]_vars

\* A DRM format that is not in mipi_dbi_formats.  The plane accepts only the
\* formats of mipi_dbi_formats, so a framebuffer of another format reaches
\* the driver only through a direct call of one of its non-static functions.
OtherFormats == {"RGB888"}

\* The driver's entry points, and mipi_dbi18_enable_flush called from outside
\* with a framebuffer of another format.
NextDirect ==
  \/ Next
  \/ \E d \in Devices, fmt \in OtherFormats, io \in FlushOutcomes :
       EnableFlush(d, fmt, io)

SpecDirect == Init /\ [][NextDirect]_vars

\* The Converter called on its own, on one bound panel.
InitConvert ==
  /\ nodes = [d \in Devices |-> PlainNode]
  /\ swap_bytes \in BOOLEAN
  /\ life = [d \in Devices |-> IF d = "pitft0" THEN "unbound" ELSE "absent"]
  /\ active = [d \in Devices |-> FALSE]
  /\ backlight = FALSE
  /\ last = [op |-> "boot", dev |-> "pitft0", gone |-> FALSE, wasActive |-> FALSE,
             por |-> 0, fmt |-> "RGB565", rect |-> NoRect, trace |-> <<>>,
             todo |-> <<>>]

ConvertOutcomes ==
  {IoOk, [IoOk EXCEPT !.cpu = -EIO], [IoOk EXCEPT !.vmap2 = -ENOMEM]}

NextConvert ==
  \E d \in Devices :
    \/ \E fail \in ProbeFailures : Probe(d, fail)
    \/ \E fmt \in mipi_dbi_formats, clip \in ConvertClips, io \in ConvertOutcomes :
         \E pix \in PixelValues(fmt) : BufCopy(d, fmt, pix, clip, io)

SpecConvert == InitConvert /\ [][NextConvert]_vars

\* ------------------------------------------- removal racing with the calls
\* SRCU read sections of the device that are open: drm_dev_enter calls of
\* the call in progress not yet matched by drm_dev_exit.
OpenSections(d) ==
  IF last.dev # d THEN 0
  ELSE Cardinality({i \in DOMAIN last.trace : last.trace[i].k = "enter"})
       - Cardinality({i \in DOMAIN last.trace : last.trace[i].k = "exit"})

\* synchronize_srcu that returns at once.
synchronize_srcu_NoWait(d) == TRUE

\* synchronize_srcu(&drm_unplug_srcu) inside drm_dev_unplug returns: every
\* read section opened before it has been closed.  (None is opened after
\* dev->unplugged is set.)
synchronize_srcu(d) == OpenSections(d) = 0

\* What is left of the events s of a function after its drm_dev_enter
\* failed: the function returns, so everything up to and including its own
\* drm_dev_exit is dropped.  depth counts the sections nested in between.
RECURSIVE AfterExit(_, _)
AfterExit(s, depth) ==
  IF s = <<>> THEN <<>>
  ELSE IF Head(s).k = "enter" THEN AfterExit(Tail(s), depth + 1)
  ELSE IF Head(s).k = "exit"
  THEN (IF depth = 0 THEN Tail(s) ELSE AfterExit(Tail(s), depth - 1))
  ELSE AfterExit(Tail(s), depth)

\* A commit calls .enable: the call begins, none of its events issued yet.
RaceEnable(d, por, fmt) ==
  /\ life[d] \in {"bound", "unplugging", "unplugged"}
  /\ ~active[d]
  /\ last.todo = <<>>
  /\ last' = [Call("enable", d, por, fmt, FullRect(d), <<>>)
                EXCEPT !.todo = sx035hv006_enable(d, por, fmt, IoOk)]
  /\ active' = [active EXCEPT ![d] = TRUE]
  /\ UNCHANGED <<nodes, swap_bytes, life, backlight>>

\* A commit calls .update: the call begins.
RaceUpdate(d, fmt, rect) ==
  /\ life[d] \in {"bound", "unplugging", "unplugged"}
  /\ last.todo = <<>>
  /\ last' = [Call("update", d, 0, fmt, rect, <<>>)
                EXCEPT !.todo = mipi_dbi18_pipe_update(d, fmt, rect, IoOk)]
  /\ UNCHANGED <<nodes, swap_bytes, life, active, backlight>>

\* The call in progress issues its next event.  A drm_dev_enter looks at
\* dev->unplugged as it is now.
RaceStep(d) ==
  /\ last.dev = d
  /\ last.todo # <<>>
  /\ LET e == Head(last.todo)
         fail == e.k = "enter" /\ ~drm_dev_enter(d)
     IN /\ last' = [last EXCEPT
                      !.trace = @ \o <<IF fail THEN EvRet("enter_fail", 0) ELSE e>>,
                      !.todo = IF fail THEN AfterExit(Tail(@), 0) ELSE Tail(@)]
        /\ backlight' = BacklightAfter(backlight, <<e>>)
  /\ UNCHANGED <<nodes, swap_bytes, life, active>>

\* ili9488_remove, drm_dev_unplug begins: dev->unplugged = true.
UnplugBegin(d) ==
  /\ life[d] = "bound"
  /\ life' = [life EXCEPT ![d] = "unplugging"]
  /\ UNCHANGED <<nodes, swap_bytes, active, backlight, last>>

\* ili9488_remove, drm_dev_unplug returns.  The return is noted among the
\* events of the device's call, to tell what the call issues after it.
UnplugEnd(d) ==
  /\ life[d] = "unplugging"
  /\ synchronize_srcu(d)
  /\ life' = [life EXCEPT ![d] = "unplugged"]
  /\ last' = IF last.dev = d
             THEN [last EXCEPT !.trace = @ \o <<EvRet("unplug_done", 0)>>]
             ELSE last
  /\ UNCHANGED <<nodes, swap_bytes, active, backlight>>

\* One panel, bound or not yet.
InitRace ==
  /\ nodes \in {n \in [Devices -> NodeConfigs] :
                  /\ n["pitft1"] = PlainNode
                  /\ n["pitft0"].rotation = 0 /\ n["pitft0"].left = 0}
  /\ swap_bytes = FALSE
  /\ life = [d \in Devices |-> IF d = "pitft0" THEN "unbound" ELSE "absent"]
  /\ active = [d \in Devices |-> FALSE]
  /\ backlight = FALSE
  /\ last = [op |-> "boot", dev |-> "pitft0", gone |-> FALSE, wasActive |-> FALSE,
             por |-> 0, fmt |-> "RGB565", rect |-> NoRect, trace |-> <<>>,
             todo |-> <<>>]

\* Damage of the updates that race with the removal.
RaceRects(d) ==
  {FullRect(d), [x1 |-> 255, x2 |-> 257, y1 |-> 250, y2 |-> 257]}

\* The commits' calls, one event at a time, and ili9488_remove: the shutdown
\* of remove runs its own commit, after the one in progress.
NextRace ==
  \E d \in Devices :
    \/ \E fail \in ProbeFailures : Probe(d, fail)
    \/ \E por \in {0, 1}, fmt \in mipi_dbi_formats : RaceEnable(d, por, fmt)
    \/ \E fmt \in mipi_dbi_formats, rect \in RaceRects(d) : RaceUpdate(d, fmt, rect)
    \/ RaceStep(d)
    \/ UnplugBegin(d)
    \/ UnplugEnd(d)
    \/ last.todo = <<>> /\ RemoveShutdown(d)

SpecRace == InitRace /\ [][NextRace]_vars

\* ======================================================== claims C1 - C4
\* The events of the most recent call, and views of them.
T == last.trace
At(k) == {i \in DOMAIN T : T[i].k = k}
IsCmd(e, op) == e.k = "cmd" /\ e.op = op

\* The bus as the panel sees it: commands and data bursts, in order.
Bus == SelectSeq(T, LAMBDA e : e.k \in {"cmd", "burst"})
BusAt(k) == {i \in DOMAIN Bus : Bus[i].k = k}

\* The decoded 16-bit value of two parameter bytes, high byte first.
BE16(hi, lo) == hi * 256 + lo

\* The call ran mipi_dbi18_fb_dirty and its drm_dev_enter succeeded.
FlushPassedGuard ==
  \E i \in At("fb_dirty") : i < Len(T) /\ T[i + 1].k = "enter"

\* ... and its drm_gem_fb_vmap succeeded as well.
FlushMapped ==
  \E i \in At("fb_dirty") :
    i + 1 < Len(T) /\ T[i + 1].k = "enter" /\ T[i + 2].k = "vmap" /\ T[i + 2].ret = 0

\* The four fast-path conditions of the claim, read off the call and the device.
FastPathConditions ==
  /\ last.rect.x1 = 0 /\ last.rect.y1 = 0
  /\ last.rect.x2 = FbWidth(last.dev) /\ last.rect.y2 = FbHeight(last.dev)
  /\ last.fmt = "RGB565"
  /\ ~swap_bytes
  /\ nodes[last.dev].dc

FastPathTaken ==
  /\ At("buf_copy") = {}
  /\ Cardinality(At("burst")) = 1
  /\ \A i \in At("burst") : T[i].buf = "fb"

CopyPathTaken ==
  /\ Cardinality(At("buf_copy")) = 1
  /\ \A i \in At("buf_copy") : T[i].buf = "tx_buf"
  /\ Cardinality(At("burst")) = 1
  /\ \A i \in At("burst") : T[i].buf = "tx_buf"

\* C1 as stated: every flush that passes the liveness guard takes the fast
\* path (no Converter call, the mapped source is transmitted) exactly when
\* the region is the full frame, the format is RGB565, no byte swap is
\* required and the bus has a data/command line; every other flush calls the
\* Converter once and transmits the scratch buffer.
C1_AsStated ==
  FlushPassedGuard =>
    IF FastPathConditions THEN FastPathTaken ELSE CopyPathTaken

\* C1 amended: the same choice, for every flush that passes the liveness
\* guard and maps the framebuffer; on the copy path the Converter is called
\* exactly once into the scratch buffer, and the scratch buffer is
\* transmitted when the Converter succeeds and nothing is when it fails.
C1_PathSelection ==
  FlushMapped =>
    IF FastPathConditions
    THEN FastPathTaken
    ELSE /\ Cardinality(At("buf_copy")) = 1
         /\ \A i \in At("buf_copy") : T[i].buf = "tx_buf"
         /\ \A i \in At("burst") : T[i].buf = "tx_buf"
         /\ \A r \in At("buf_copy_return") :
              Cardinality(At("burst")) = IF T[r].ret = 0 THEN 1 ELSE 0

\* An update of the whole frame that took the fast path, or one in XRGB8888
\* that took the copy path.
C1_Witness ==
  /\ last.op = "update"
  /\ FlushMapped
  /\ \/ FastPathConditions /\ FastPathTaken
     \/ last.fmt = "XRGB8888" /\ last.rect = FullRect(last.dev) /\ CopyPathTaken

\* C2: on the bus, every data burst comes directly after one column-address
\* command followed by one page-address command, both for the region the
\* burst covers, and never after a second or a missing addressing command.
C2_AddressBeforeBurst ==
  \A i \in BusAt("burst") :
    /\ i >= 3
    /\ IsCmd(Bus[i - 2], MIPI_DCS_SET_COLUMN_ADDRESS)
    /\ IsCmd(Bus[i - 1], MIPI_DCS_SET_PAGE_ADDRESS)
    /\ i >= 4 => /\ ~IsCmd(Bus[i - 3], MIPI_DCS_SET_COLUMN_ADDRESS)
                 /\ ~IsCmd(Bus[i - 3], MIPI_DCS_SET_PAGE_ADDRESS)
    /\ LET c == Bus[i - 2].par
           p == Bus[i - 1].par
       IN Bus[i].len =
            (BE16(c[3], c[4]) - BE16(c[1], c[2]) + 1)
            * (BE16(p[3], p[4]) - BE16(p[1], p[2]) + 1) * 3

\* An enable whose flush sent a burst after other bus commands.
C2_Witness ==
  /\ last.op = "enable"
  /\ \E i \in BusAt("burst") : i >= 4

\* C3: the column-address and page-address commands of a flush carry, as
\* 2-byte big-endian values, x1+left, x2-1+left and y1+top, y2-1+top.
C3_WindowBytes ==
  LET r == last.rect
      n == nodes[last.dev]
  IN \A i \in At("cmd") :
       /\ IsCmd(T[i], MIPI_DCS_SET_COLUMN_ADDRESS) =>
            /\ Len(T[i].par) = 4
            /\ \A j \in 1..4 : T[i].par[j] \in 0..255
            /\ BE16(T[i].par[1], T[i].par[2]) = r.x1 + n.left
            /\ BE16(T[i].par[3], T[i].par[4]) = r.x2 - 1 + n.left
       /\ IsCmd(T[i], MIPI_DCS_SET_PAGE_ADDRESS) =>
            /\ Len(T[i].par) = 4
            /\ \A j \in 1..4 : T[i].par[j] \in 0..255
            /\ BE16(T[i].par[1], T[i].par[2]) = r.y1 + n.top
            /\ BE16(T[i].par[3], T[i].par[4]) = r.y2 - 1 + n.top

\* A partial update on a panel with offsets whose coordinates need both bytes.
C3_Witness ==
  /\ last.op = "update"
  /\ nodes[last.dev].left > 0
  /\ last.rect.x1 > 0
  /\ last.rect.x2 < FbWidth(last.dev)
  /\ \E i \in At("cmd") :
       /\ IsCmd(T[i], MIPI_DCS_SET_COLUMN_ADDRESS)
       /\ T[i].par[1] > 0 /\ T[i].par[2] > 0
  /\ \E i \in At("cmd") : IsCmd(T[i], MIPI_DCS_SET_PAGE_ADDRESS)

\* C4: once the device is unplugged, update, enable and enable-flush issue
\* no bus command, no data burst and no backlight call, touch no mapping,
\* and leave the backlight as it was.
C4_GoneIsNoOp ==
  (last.op \in {"update", "enable", "enable_flush"} /\ last.gone) =>
    /\ At("cmd") = {} /\ At("burst") = {}
    /\ At("backlight_enable") = {}
    /\ At("poweron_conditional_reset") = {}
    /\ At("vmap") = {} /\ At("buf_copy") = {}
    /\ At("enter") = {} /\ At("exit") = {}

\* An update with damage, on an active pipe, after the unplug: the guard of
\* mipi_dbi18_fb_dirty tripped.
C4_Witness ==
  /\ last.op = "update" /\ last.gone /\ last.wasActive
  /\ At("fb_dirty") # {}
  /\ At("enter_fail") # {}

\* ======================================================= claims C5 - C10
\* Another panel on the shared backlight is bound and its pipe is on.
SiblingActive(d) ==
  \E o \in Devices \ {d} : life[o] = "bound" /\ active[o]

\* C5 as stated: removing one of two enabled panels that share the backlight
\* issues no backlight disable and leaves the backlight on while the other
\* panel is still active.
C5_AsStated ==
  (last.op = "remove" /\ last.wasActive /\ SiblingActive(last.dev)) =>
    /\ At("backlight_disable") = {}
    /\ backlight

\* C5 amended: removing a panel whose pipe is on turns the shared backlight
\* off (the shutdown of remove runs the pipe's disable hook), also while
\* another panel on the same backlight is still active; removing a panel
\* whose pipe is off issues no backlight call.
C5_RemoveTurnsBacklightOff ==
  last.op = "remove" =>
    IF last.wasActive
    THEN Cardinality(At("backlight_disable")) = 1 /\ ~backlight
    ELSE T = <<>>

\* One of two enabled panels removed, the other still active, backlight off.
C5_Witness ==
  /\ last.op = "remove" /\ last.wasActive
  /\ SiblingActive(last.dev)
  /\ ~backlight

\* The enable of the most recent step got past its guard with this result
\* of the power-on step.
EnableRan(por) == last.op = "enable" /\ ~last.gone /\ last.por = por

\* Commands, delays, bursts and backlight calls of the call, in order.
Steps == SelectSeq(T, LAMBDA e : e.k \in {"cmd", "msleep", "burst", "backlight_enable"})

\* kind, opcode or milliseconds, number of parameters
Shape(e) == <<e.k, e.op, Len(e.par)>>

\* The set-up sequence of the claim, addressing-mode command included.
SetupOrder ==
  << <<"cmd", ILI9488_CMD_DISPLAY_OFF, 0>>,
     <<"cmd", ILI9488_CMD_POSITIVE_GAMMA_CORRECTION, 15>>,
     <<"cmd", ILI9488_CMD_NEGATIVE_GAMMA_CORRECTION, 15>>,
     <<"cmd", ILI9488_CMD_POWER_CONTROL_1, 2>>,
     <<"cmd", ILI9488_CMD_POWER_CONTROL_2, 1>>,
     <<"cmd", ILI9488_CMD_VCOM_CONTROL_1, 3>>,
     <<"cmd", ILI9488_CMD_MEMORY_ACCESS_CONTROL, 1>>,
     <<"cmd", ILI9488_CMD_COLMOD_PIXEL_FORMAT_SET, 1>>,
     <<"cmd", ILI9488_CMD_INTERFACE_MODE_CONTROL, 1>>,
     <<"cmd", ILI9488_CMD_FRAME_RATE_CONTROL_NORMAL, 1>>,
     <<"cmd", ILI9488_CMD_DISPLAY_INVERSION_CONTROL, 1>>,
     <<"cmd", ILI9488_CMD_DISPLAY_FUNCTION_CONTROL, 3>>,
     <<"cmd", ILI9488_CMD_ENTRY_MODE_SET, 1>>,
     <<"cmd", ILI9488_CMD_ADJUST_CONTROL_3, 4>>,
     <<"cmd", ILI9488_CMD_SLEEP_OUT, 0>>,
     <<"msleep", 120, 0>>,
     <<"cmd", ILI9488_CMD_NORMAL_DISP_MODE_ON, 0>>,
     <<"cmd", ILI9488_CMD_DISPLAY_ON, 0>>,
     <<"msleep", 100, 0>>,
     <<"cmd", ILI9488_CMD_SET_ADDRESS_MODE, 1>> >>

\* Opcodes that only the configuration steps 2-8 send.
ConfigOnlyOpcodes ==
  {SetupOrder[i][2] : i \in {j \in 1..19 : SetupOrder[j][1] = "cmd"}}
    \ {ILI9488_CMD_SET_ADDRESS_MODE}

\* C6: after a needs-init power-on, enable issues the set-up commands and
\* the two delays once each in the order of SetupOrder, the pixel format is
\* 18 bit on the bus interface, and nothing but the flush and the backlight
\* enable follows the addressing-mode command.
C6_InitOrder ==
  EnableRan(0) =>
    /\ Len(Steps) >= Len(SetupOrder)
    /\ \A i \in 1..Len(SetupOrder) : Shape(Steps[i]) = SetupOrder[i]
    /\ Steps[8].par[1] % 8 = MIPI_DCS_PIXEL_FMT_18BIT
    /\ \A i \in (Len(SetupOrder) + 1)..Len(Steps) :
         /\ Steps[i].k # "msleep"
         /\ Steps[i].k = "cmd" =>
              Steps[i].op \in {MIPI_DCS_SET_COLUMN_ADDRESS, MIPI_DCS_SET_PAGE_ADDRESS}

\* An enable that ran the whole set-up and then painted and lit the panel.
C6_Witness ==
  /\ EnableRan(0)
  /\ At("burst") # {}
  /\ At("backlight_enable") # {}

\* Steps plus the calls of mipi_dbi18_fb_dirty.
StepsAndFlush ==
  SelectSeq(T, LAMBDA e :
    e.k \in {"cmd", "msleep", "burst", "backlight_enable", "fb_dirty"})

\* C7: after an already-initialized power-on, enable issues no
\* configuration command and no delay: its first step is the addressing-mode
\* command, then comes the flush of the whole frame with at most its own
\* column address, page address and burst, then the backlight enable.
C7_RetainedSkipsInit ==
  EnableRan(1) =>
    LET s == StepsAndFlush
        n == Len(s)
    IN /\ n >= 3
       /\ IsCmd(s[1], ILI9488_CMD_SET_ADDRESS_MODE)
       /\ s[1].par = <<AddrMode(nodes[last.dev].rotation)>>
       /\ s[2].k = "fb_dirty"
       /\ s[2].par = <<0, 0, FbWidth(last.dev), FbHeight(last.dev)>>
       /\ s[n].k = "backlight_enable"
       /\ \A i \in 3..(n - 1) :
            \/ IsCmd(s[i], MIPI_DCS_SET_COLUMN_ADDRESS)
            \/ IsCmd(s[i], MIPI_DCS_SET_PAGE_ADDRESS)
            \/ s[i].k = "burst"
       /\ Cardinality(At("burst")) <= 1
       /\ \A i \in At("cmd") : T[i].op \notin ConfigOnlyOpcodes
       /\ At("msleep") = {}

\* An enable on a panel that kept its configuration, which painted the frame.
C7_Witness ==
  /\ EnableRan(1)
  /\ At("burst") # {}
  /\ At("backlight_enable") # {}

\* The commands of steps 2-8: those issued before the addressing-mode
\* command, which is the last write of that register in the call.
ConfigCommands ==
  {i \in At("cmd") :
     \E a \in At("cmd") :
       /\ i < a
       /\ T[a].op = ILI9488_CMD_SET_ADDRESS_MODE
       /\ \A j \in At("cmd") : T[j].op = ILI9488_CMD_SET_ADDRESS_MODE => j <= a}

\* A configuration command of steps 2-8 failed on the bus.
ConfigCommandFailed == \E i \in ConfigCommands : T[i].ret # 0

\* C8 as stated: when the power-on step or a configuration command of
\* steps 2-8 fails, enable stops there and does not enable the backlight.
C8_AsStated ==
  (last.op = "enable" /\ ~last.gone /\ (last.por < 0 \/ ConfigCommandFailed)) =>
    At("backlight_enable") = {}

\* C8 amended: only a failed power-on step aborts enable: it is logged, run
\* once, and no backlight enable follows.  A failed configuration command
\* of steps 2-8 is not retried and does not abort: every step of the
\* sequence is still issued once and the backlight is enabled.
C8_OnlyPowerOnAborts ==
  (last.op = "enable" /\ ~last.gone) =>
    /\ last.por < 0 =>
         /\ At("backlight_enable") = {}
         /\ Cardinality(At("poweron_conditional_reset")) = 1
         /\ \E i \in At("err_once") : T[i].ret = last.por
    /\ ConfigCommandFailed =>
         /\ \A i \in 1..Len(SetupOrder) : Shape(Steps[i]) = SetupOrder[i]
         /\ Cardinality(ConfigCommands) = 17
         /\ Cardinality(At("backlight_enable")) = 1

\* An enable whose display-off command failed and that lit the backlight.
C8_Witness ==
  /\ last.op = "enable" /\ ~last.gone
  /\ \E i \in At("cmd") : T[i].ret # 0 /\ T[i].op = ILI9488_CMD_DISPLAY_OFF
  /\ At("backlight_enable") # {}

\* C9: when the power-on step fails, enable issues no bus command and no
\* data burst, maps nothing, leaves the backlight alone, and leaves the
\* guard it entered: its last event is the one drm_dev_exit.
C9_HardFailure ==
  (last.op = "enable" /\ ~last.gone /\ last.por < 0) =>
    /\ At("cmd") = {} /\ At("burst") = {} /\ At("msleep") = {}
    /\ At("fb_dirty") = {} /\ At("backlight_enable") = {}
    /\ Cardinality(At("enter")) = 1
    /\ Cardinality(At("exit")) = 1
    /\ T[Len(T)].k = "exit"

\* An enable whose power-on step failed.
C9_Witness ==
  /\ last.op = "enable" /\ ~last.gone /\ last.por < 0
  /\ At("poweron_conditional_reset") # {}

\* The burst e covers the whole frame of the device of the call.
WholeFrameBurst(e) ==
  e.k = "burst" /\ e.len = FbWidth(last.dev) * FbHeight(last.dev) * 3

\* C10 as stated: every enable that turns the backlight on has issued,
\* in this order, the addressing-mode command, the column address, the page
\* address and a burst covering the whole frame before the backlight enable.
C10_AsStated ==
  (last.op = "enable" /\ At("backlight_enable") # {}) =>
    \A l \in At("backlight_enable") :
      \E a, c, p, b \in 1..l :
        /\ a < c /\ c < p /\ p < b /\ b < l
        /\ IsCmd(T[a], ILI9488_CMD_SET_ADDRESS_MODE)
        /\ IsCmd(T[c], MIPI_DCS_SET_COLUMN_ADDRESS)
        /\ IsCmd(T[p], MIPI_DCS_SET_PAGE_ADDRESS)
        /\ WholeFrameBurst(T[b])

\* The flush of the call mapped and converted what it needed.
FlushPrepared ==
  /\ \A i \in At("vmap") : T[i].ret = 0
  /\ \A i \in At("begin_cpu_access") : T[i].ret = 0
  /\ \A i \in At("buf_copy_return") : T[i].ret = 0

\* C10 amended: every enable that turns the backlight on has issued the
\* addressing-mode command and then called the flush of the whole frame
\* before the backlight enable, and every addressing command and burst of
\* the flush lies before the backlight enable; the whole-frame burst is
\* there when the flush could map and convert the framebuffer, and the
\* backlight is enabled also when it could not.
C10_FlushBeforeBacklight ==
  (last.op = "enable" /\ At("backlight_enable") # {}) =>
    /\ Cardinality(At("backlight_enable")) = 1
    /\ \A l \in At("backlight_enable") :
         /\ \E a, f \in 1..l :
              /\ a < f /\ f < l
              /\ IsCmd(T[a], ILI9488_CMD_SET_ADDRESS_MODE)
              /\ \A j \in At("cmd") : T[j].op = ILI9488_CMD_SET_ADDRESS_MODE => j <= a
              /\ T[f].k = "fb_dirty"
              /\ T[f].par = <<0, 0, FbWidth(last.dev), FbHeight(last.dev)>>
              /\ \A j \in At("burst") : f < j /\ j < l
              /\ \A j \in At("cmd") :
                   T[j].op \in {MIPI_DCS_SET_COLUMN_ADDRESS, MIPI_DCS_SET_PAGE_ADDRESS}
                     => f < j /\ j < l
         /\ FlushPrepared =>
              \E c, p, b \in 1..l :
                /\ c < p /\ p < b /\ b < l
                /\ IsCmd(T[c], MIPI_DCS_SET_COLUMN_ADDRESS)
                /\ IsCmd(T[p], MIPI_DCS_SET_PAGE_ADDRESS)
                /\ WholeFrameBurst(T[b])
         /\ ~FlushPrepared => At("burst") = {}

\* An enable that lit the backlight although its flush could not map the
\* framebuffer, or one that painted the whole frame first.
C10_Witness ==
  /\ last.op = "enable"
  /\ At("backlight_enable") # {}
  /\ \/ ~FlushPrepared /\ At("burst") = {}
     \/ \E b \in At("burst") : WholeFrameBurst(T[b])

\* ====================================================== claims C11 - C20
\* Bit b (the value of BIT(n)) is set in the byte v.
BitSet(v, b) == (v \div b) % 2 = 1

\* The addressing-mode byte of the rotation table: mirror-X for 0,
\* row/column swap for 90, mirror-Y for 180, all three for 270.
RotationTable(rotation) ==
  [mx |-> rotation \in {0, 270},
   mv |-> rotation \in {90, 270},
   my |-> rotation \in {180, 270}]

\* Writes of the memory-access-control / address-mode register in the call.
AddressModeWrites == {i \in At("cmd") : T[i].op = ILI9488_CMD_SET_ADDRESS_MODE}

\* C11: every enable that gets past the power-on step writes the
\* addressing-mode register after all other set-up commands, with one byte
\* that has mirror-X, row/column swap and mirror-Y set exactly as the
\* rotation table says and no other bit (not BGR); no later write of that
\* register follows, and every data burst of the call comes after it.
C11_AddressModeByte ==
  (last.op = "enable" /\ ~last.gone /\ last.por >= 0) =>
    /\ AddressModeWrites # {}
    /\ LET a == CHOOSE i \in AddressModeWrites : \A j \in AddressModeWrites : j <= i
           v == T[a].par[1]
           want == RotationTable(nodes[last.dev].rotation)
       IN /\ Len(T[a].par) = 1
          /\ v \in 0..255
          /\ BitSet(v, ILI9488_MADCTL_MX) = want.mx
          /\ BitSet(v, ILI9488_MADCTL_MV) = want.mv
          /\ BitSet(v, ILI9488_MADCTL_MY) = want.my
          /\ v = (IF want.mx THEN 64 ELSE 0) + (IF want.mv THEN 32 ELSE 0)
                 + (IF want.my THEN 128 ELSE 0)
          /\ ~BitSet(v, ILI9488_MADCTL_BGR)
          /\ \A b \in At("burst") : a < b
          /\ \A i \in At("cmd") :
               (i < a /\ T[i].op \notin {MIPI_DCS_SET_COLUMN_ADDRESS, MIPI_DCS_SET_PAGE_ADDRESS})
                 \/ i = a
                 \/ (i > a /\ T[i].op \in {MIPI_DCS_SET_COLUMN_ADDRESS, MIPI_DCS_SET_PAGE_ADDRESS})

\* A full initialisation at rotation 270: the register is first written with
\* the BGR bit, then with the three orientation bits, then the frame is sent.
C11_Witness ==
  /\ EnableRan(0)
  /\ nodes[last.dev].rotation = 270
  /\ Cardinality(AddressModeWrites) = 2
  /\ \E i \in AddressModeWrites : BitSet(T[i].par[1], ILI9488_MADCTL_BGR)
  /\ At("burst") # {}

\* The rotation property of the device is none of 0, 90, 180, 270.
BadRotation(d) == nodes[d].rotation \notin {0, 90, 180, 270}

\* C12: a device whose rotation is none of 0, 90, 180, 270 is never bound:
\* each probe of it returns an error, the invalid-argument error unless an
\* allocation failed first, and no driver call other than probe is ever made
\* for it, so it never reaches enable with the default addressing mode.
C12_BadRotationNeverBinds ==
  \A d \in Devices :
    BadRotation(d) =>
      /\ life[d] \in {"absent", "unbound"}
      /\ ~active[d]
      /\ last.dev = d =>
           /\ last.op \in {"boot", "probe"}
           /\ last.op = "probe" => last.por \in {-EINVAL, -ENOMEM}
           /\ T = <<>>

\* A probe of a device with rotation 45 that failed with the invalid-argument
\* error and left the device unbound.
C12_Witness ==
  /\ last.op = "probe"
  /\ nodes[last.dev].rotation = 45
  /\ last.por = -EINVAL
  /\ life[last.dev] = "unbound"

\* The flush of the call got as far as the transmission: it passed the
\* guard, mapped the framebuffer, and its Converter, if called, succeeded.
ReachedTransmission ==
  /\ FlushMapped
  /\ \A r \in At("buf_copy_return") : T[r].ret = 0

\* C13: a call that flushes sends one data burst when the flush reaches the
\* transmission and none otherwise; the burst is a memory write of
\* (x2-x1)*(y2-y1)*3 bytes for the flushed region, whichever path and
\* source format.
C13_OneBurstOfRegionSize ==
  At("fb_dirty") # {} =>
    /\ Cardinality(At("fb_dirty")) = 1
    /\ Cardinality(At("burst")) = IF ReachedTransmission THEN 1 ELSE 0
    /\ \A b \in At("burst") :
         /\ T[b].op = MIPI_DCS_WRITE_MEMORY_START
         /\ T[b].len = (last.rect.x2 - last.rect.x1) * (last.rect.y2 - last.rect.y1) * 3

\* An update of a 2 x 7 region in XRGB8888: one burst of 42 bytes from the
\* scratch buffer.
C13_Witness ==
  /\ last.op = "update"
  /\ last.fmt = "XRGB8888"
  /\ last.rect.x2 - last.rect.x1 = 2 /\ last.rect.y2 - last.rect.y1 = 7
  /\ ReachedTransmission
  /\ \E b \in At("burst") : T[b].buf = "tx_buf" /\ T[b].len = 42

\* The calls of the drm_fb_* conversion helpers in the call.
ConverterWrites ==
  {i \in DOMAIN T :
     T[i].k \in {"drm_fb_memcpy", "drm_fb_swab", "drm_fb_xrgb8888_to_rgb888"}}

\* Pixels of the region of the call.
RegionPixels == (last.rect.x2 - last.rect.x1) * (last.rect.y2 - last.rect.y1)

\* C14: for RGB565 input the Converter writes three bytes per pixel of the
\* region into the wire buffer, w*h*3 bytes, as many as the data burst
\* that follows transmits.
C14_AsStated ==
  last.fmt = "RGB565" =>
    \A i \in ConverterWrites :
      /\ T[i].buf = "tx_buf"
      /\ T[i].len = RegionPixels * 3
      /\ \A b \in At("burst") : i < b => T[b].len = T[i].len

\* What the Converter read and what it stored, when it was called on its own.
ConvSrc == T[CHOOSE i \in At("src") : TRUE].par
ConvDst == T[CHOOSE i \in At("dst") : TRUE].par

\* C15: an XRGB8888 conversion stores three bytes per pixel, and the pixel
\* 0x00RRGGBB becomes RR, GG, BB in this order; 4 x 4 pixels of 0x00FF8040
\* become 48 bytes, every triplet (0xFF, 0x80, 0x40).
C15_AsStated ==
  (last.op = "buf_copy" /\ last.fmt = "XRGB8888" /\ At("dst") # {}) =>
    /\ Len(ConvDst) = 3 * Len(ConvSrc)
    /\ \A j \in 1..Len(ConvSrc) :
         /\ ConvDst[3 * j - 2] = (ConvSrc[j] \div 65536) % 256
         /\ ConvDst[3 * j - 1] = (ConvSrc[j] \div 256) % 256
         /\ ConvDst[3 * j] = ConvSrc[j] % 256

\* The flush of the call failed: its Converter or its data burst returned
\* an error.
FlushFailed ==
  \/ \E r \in At("buf_copy_return") : T[r].ret # 0
  \/ \E b \in At("burst") : T[b].ret # 0

\* The error of the failed flush.
FlushError ==
  IF \E r \in At("buf_copy_return") : T[r].ret # 0
  THEN T[CHOOSE r \in At("buf_copy_return") : TRUE].ret
  ELSE T[CHOOSE b \in At("burst") : T[b].ret # 0].ret

\* C16 as stated: a failed flush returns its error to its caller, and
\* attempts at most one conversion and one data burst.
C16_AsStated ==
  FlushFailed =>
    /\ \E r \in At("fb_dirty_return") : T[r].ret = FlushError
    /\ Cardinality(At("buf_copy")) <= 1
    /\ Cardinality(At("burst")) <= 1

\* C16 amended: a failed flush logs its error and returns nothing to its
\* caller, which goes on as after a success (enable-flush still turns the
\* backlight on); it is not retried: one conversion at most, one data burst
\* at most, and no bus traffic after the failure.
C16_FailureLoggedNotReturned ==
  FlushFailed =>
    /\ Cardinality(At("fb_dirty_return")) = 1
    /\ \A r \in At("fb_dirty_return") :
         /\ T[r].ret = 0
         /\ \E l \in At("err_once") : l < r /\ T[l].ret = FlushError
         /\ last.op \in {"enable", "enable_flush"} =>
              \E l \in At("backlight_enable") : r < l
    /\ Cardinality(At("buf_copy")) <= 1
    /\ Cardinality(ConverterWrites) <= 1
    /\ Cardinality(At("burst")) <= 1
    /\ \A b \in At("burst") : \A i \in At("cmd") : i < b
    /\ (\E r \in At("buf_copy_return") : T[r].ret # 0) => At("burst") = {}

\* An update whose data burst failed on the bus.
C16_Witness ==
  /\ last.op = "update"
  /\ \E b \in At("burst") : T[b].ret # 0
  /\ At("fb_dirty_return") # {}

\* The window-addressing commands of the call.
WindowCommands ==
  {i \in At("cmd") :
     T[i].op \in {MIPI_DCS_SET_COLUMN_ADDRESS, MIPI_DCS_SET_PAGE_ADDRESS}}

FbBytes == FbWidth(last.dev) * FbHeight(last.dev) * FormatCpp(last.fmt)

\* Every byte of every burst of the call is a byte of the source pixels:
\* a burst from the scratch buffer is no longer than what the Converter
\* stored there in this call, a burst from the mapping no longer than the
\* framebuffer.
BurstFromSourceOnly ==
  \A b \in At("burst") :
    IF T[b].buf = "tx_buf"
    THEN \E w \in ConverterWrites : w < b /\ T[b].len <= T[w].len
    ELSE T[b].len <= FbBytes

\* The call is an update of the whole frame that met no failure.
FullFrameUpdate ==
  /\ last.op = "update" /\ ~last.gone /\ last.wasActive
  /\ last.rect = FullRect(last.dev)
  /\ \A i \in DOMAIN T : T[i].k # "err_once" /\ T[i].ret = 0

\* What the bus sees of mipi_dbi18_pipe_update called once more, in the state
\* the call left, with the same framebuffer and damage and no failure.
BusOfRepeat ==
  SelectSeq(mipi_dbi18_pipe_update(last.dev, last.fmt, last.rect, IoOk),
            LAMBDA e : e.k \in {"cmd", "burst"})

C20_AsStated ==
  \A b \in At("burst") :
    /\ T[b].len = RegionPixels * 3
    /\ T[b].buf = "tx_buf" => T[b].len <= bufsize
    /\ T[b].buf = "fb" => T[b].len <= FbBytes

\* Bus commands and data bursts among the events of the call.
BusEvents == At("cmd") \cup At("burst")

\* C19: with ili9488_remove running next to update and enable, no bus
\* command and no data burst of the device is issued after drm_dev_unplug
\* has returned: a call that began after dev->unplugged was set issues none
\* at all, a call inside a read section has left it by the time
\* drm_dev_unplug returns, and no read section is entered afterwards.
C19_NoBusAfterUnplug ==
  /\ \A i \in BusEvents : \A u \in At("unplug_done") : i < u
  /\ last.gone => BusEvents = {} /\ At("enter") = {}
  /\ \A i \in BusEvents :
       Cardinality({j \in At("enter") : j < i}) > Cardinality({j \in At("exit") : j < i})
  /\ life[last.dev] \in {"unplugged", "removed"} =>
       /\ OpenSections(last.dev) = 0
       /\ \A i \in DOMAIN last.todo : last.todo[i].k \in {"cmd", "burst"} =>
            \E j \in 1..(i - 1) : last.todo[j].k = "enter"

\* An enable that had sent commands when dev->unplugged was set, found its
\* inner guard closed, and was over when drm_dev_unplug returned.
C19_Witness ==
  /\ last.op = "enable" /\ ~last.gone
  /\ life[last.dev] = "unplugged"
  /\ \E c \in At("cmd"), f \in At("enter_fail"), u \in At("unplug_done") :
       c < f /\ f < u

\* ============================================================= claim C21
\* Among the first n events of the call: the acquisitions of kind acq that
\* succeeded, less the releases of kind rel.
Held(acq, rel, n) ==
  Cardinality({i \in At(acq) : i <= n /\ T[i].ret = 0})
  - Cardinality({i \in At(rel) : i <= n})

\* The three pairs: guard sections, framebuffer mappings, CPU accesses.
AcquireRelease ==
  { <<"enter", "exit">>, <<"vmap", "vunmap">>,
    <<"begin_cpu_access", "end_cpu_access">> }

\* The return event of the function whose call event is at c: the first
\* event of kind ret after c.
ReturnOf(c, ret) ==
  CHOOSE r \in At(ret) : c < r /\ \A q \in At(ret) : c < q => r <= q

\* C21: when a call has returned, every guard section it entered, every
\* mapping it made and every CPU access it began has been released once and
\* none twice, failed acquisitions releasing nothing; the same holds between
\* the call and the return of mipi_dbi18_fb_dirty and of
\* mipi_dbi18_buf_copy inside it.
C21_AcquisitionsReleased ==
  last.todo = <<>> =>
    \A p \in AcquireRelease :
      /\ Held(p[1], p[2], Len(T)) = 0
      /\ \A n \in DOMAIN T : Held(p[1], p[2], n) >= 0
      /\ \A c \in At("fb_dirty") :
           /\ \E r \in At("fb_dirty_return") : c < r
           /\ Held(p[1], p[2], ReturnOf(c, "fb_dirty_return")) = Held(p[1], p[2], c)
      /\ \A c \in At("buf_copy") :
           /\ \E r \in At("buf_copy_return") : c < r
           /\ Held(p[1], p[2], ReturnOf(c, "buf_copy_return")) = Held(p[1], p[2], c)

\* An update whose Converter began the CPU access and then failed to map the
\* framebuffer: the access was ended, and the flush's own mapping unmapped.
C21_Witness ==
  /\ last.op = "update"
  /\ \E c \in At("buf_copy"), v \in At("vmap") : c < v /\ T[v].ret # 0
  /\ Cardinality(At("end_cpu_access")) = 1
  /\ Cardinality(At("vunmap")) = 1
  /\ Cardinality(At("exit")) = 1

====
